---- MODULE Spec2Model ----
(***************************************************************************)
(* A model of pumpp's frame-aligned annotation encoding:                   *)
(*   - fill_value, encode_events, encode_intervals   (pumpp/task/base.py)  *)
(*   - BaseTaskTransformer.transform / empty         (pumpp/task/base.py)  *)
(*   - BeatTransformer                               (pumpp/task/event.py) *)
(*   - the field schemas of the feature extractors   (pumpp/feature/*.py)  *)
(*                                                                         *)
(* Times are whole numbers of ticks, TicksPerSecond ticks to the second.   *)
(* An array of shape (n, m) is a sequence of n rows, each a sequence of m  *)
(* cells; frame f of the code (0-based) is row f + 1 of the sequence.      *)
(* A cell is a record: NaN, or Num(v) for the number v.                    *)
(***************************************************************************)
EXTENDS Integers, Sequences, FiniteSets

VARIABLES
    sr,          \* self.sr
    hop_length,  \* self.hop_length
    duration,    \* the track duration handed to the encoders (ticks)
    dtype,       \* the dtype argument of the encoders
    intervals,   \* the intervals argument, a sequence of <<start, end>>
    values,      \* the values argument: [m |-> columns, rows |-> the rows]
    call,        \* which encoder ran: "none", "encode_events", ...
    err,         \* the exception the call raised, "none" when it returned
    target,      \* the returned array (<<>> when the call raised)
    cls,         \* the class of the producer
    name,        \* self.name, the prefix of the producer's keys
    fields,      \* self.fields: field name -> [shape, dtype]
    ctor,        \* the register/pop calls the constructors have yet to make
    popped,      \* the descriptor the last pop returned
    size,        \* n_fft, n_octaves, n_mels, win_length or n_fmt
    annotations, \* jam.annotations
    query,       \* the query argument of transform
    anns,        \* transform's list of converted annotations
    results,     \* transform's list of per-annotation dicts
    data         \* the dict transform returned (<<>> when it raised)

vars == <<sr, hop_length, duration, dtype, intervals, values, call, err,
          target, cls, name, fields, ctor, popped, size, annotations,
          query, anns, results, data>>

----------------------------------------------------------------------------
(* Bounds of the model *)

MaxTime == 2
MaxLen == 2
MaxAnns == 2
MaxObs == 1

\* the unit of time: a tick is half a second
TicksPerSecond == 2

Times == 0..MaxTime

SeqsUpTo(S, n) == UNION {[1..k -> S] : k \in 0..n}

\* the (sr, hop_length) pairs of the producers
Rates == {<<4, 2>>, <<3, 2>>}

DTypes == {"bool", "int", "float", "complex"}

----------------------------------------------------------------------------
(* Cells and dtypes *)

NaN == [nan |-> TRUE, v |-> 0]

Num(v) == [nan |-> FALSE, v |-> v]

Min(a, b) == IF a <= b THEN a ELSE b

Max(a, b) == IF a >= b THEN a ELSE b

\* np.issubdtype(dtype, np.float) or np.issubdtype(dtype, np.complex)
IsInexact(dt) == dt \in {"float", "complex"}

fill_value_zero(dt) == Num(0)

fill_value(dt) == IF IsInexact(dt) THEN NaN ELSE Num(0)

\* one cell of values.astype(dtype): a boolean is 1 exactly for a non-zero
astype(v, dt) == IF dt = "bool" THEN Num(IF v # 0 THEN 1 ELSE 0) ELSE Num(v)

\* a + b on two cells of an array of type dt: NaN absorbs, booleans saturate
Add(a, b, dt) ==
    IF a.nan \/ b.nan THEN NaN
    ELSE IF dt = "bool" THEN Num(IF a.v # 0 \/ b.v # 0 THEN 1 ELSE 0)
    ELSE Num(a.v + b.v)

\* row += column
AddRow(row, column, dt) ==
    [j \in 1..Len(row) |-> Add(row[j], astype(column[j], dt), dt)]

----------------------------------------------------------------------------
(* librosa.time_to_frames: time_to_samples truncates t * sr to an integer,
   samples_to_frames floor-divides by hop_length *)

time_to_frames_ceil(t) ==
    (((t * sr) \div TicksPerSecond) + hop_length - 1) \div hop_length

time_to_frames(t) == ((t * sr) \div TicksPerSecond) \div hop_length

\* n_total = int(time_to_frames(duration, ...))
n_total(d) == time_to_frames(d)

\* np.empty((n_total, values.shape[1])); target.fill(fill_value(dtype))
FilledTarget(d, m, dt) ==
    [f \in 1..n_total(d) |-> [j \in 1..m |-> fill_value(dt)]]

----------------------------------------------------------------------------
(* encode_events *)

\* for column, event in zip(values, frames): target[event] += column
\* an index at or beyond len(target) raises IndexError
RECURSIVE EventsLoop(_, _, _, _, _)
EventsLoop(tgt, rows, frames, i, dt) ==
    IF i > Min(Len(rows), Len(frames))
    THEN [err |-> "none", target |-> tgt]
    ELSE IF frames[i] >= Len(tgt)
         THEN [err |-> "IndexError", target |-> <<>>]
         ELSE EventsLoop(
                 [tgt EXCEPT ![frames[i] + 1] = AddRow(@, rows[i], dt)],
                 rows, frames, i + 1, dt)

encode_events(d, events, vals, dt) ==
    LET frames == [i \in 1..Len(events) |-> time_to_frames(events[i])]
    IN  EventsLoop(FilledTarget(d, vals.m, dt), vals.rows, frames, 1, dt)

----------------------------------------------------------------------------
(* encode_intervals *)

\* target[interval[0]:interval[1]] += column ; a slice is clipped to the
\* array and is empty when its start is not below its end
InSlice(f, a, b, n) == a <= f /\ f < Min(b, n)

RECURSIVE IntervalsLoop(_, _, _, _, _)
IntervalsLoop(tgt, rows, frames, i, dt) ==
    IF i > Min(Len(rows), Len(frames))
    THEN [err |-> "none", target |-> tgt]
    ELSE IntervalsLoop(
            [f \in 1..Len(tgt) |->
                IF InSlice(f - 1, frames[i][1], frames[i][2], Len(tgt))
                THEN AddRow(tgt[f], rows[i], dt)
                ELSE tgt[f]],
            rows, frames, i + 1, dt)

encode_intervals(d, ivs, vals, dt) ==
    LET frames == [i \in 1..Len(ivs) |->
                     <<time_to_frames(ivs[i][1]), time_to_frames(ivs[i][2])>>]
    IN  IntervalsLoop(FilledTarget(d, vals.m, dt), vals.rows, frames, 1, dt)

----------------------------------------------------------------------------
(* Scope: the field schema and the key prefix of a producer *)

None == <<>>

Some(x) == <<x>>

\* Scope.scope: a key under the producer's name
scope(key) == name \o "/" \o key

\* Scope.register: a field descriptor under its name
register(fs, field, shape, dt) ==
    [k \in DOMAIN fs \cup {field} |->
        IF k = field THEN [shape |-> shape, dtype |-> dt] ELSE fs[k]]

\* Scope.pop: the schema without the field
pop(fs, field) == [k \in DOMAIN fs \ {field} |-> fs[k]]

NoFields == [k \in {} |-> 0]

\* BeatTransformer.__init__: three boolean fields
BeatFields ==
    register(register(register(NoFields,
        "beat", <<None>>, "bool"),
        "downbeat", <<None>>, "bool"),
        "mask_downbeat", <<1>>, "bool")

----------------------------------------------------------------------------
(* jams annotations: [namespace, time, duration, data], time and duration
   None or Some(ticks), data a sequence of observations <<time, value>> *)

\* jams.nsconvert.convert raises NamespaceError unless the namespace is the
\* target or converts to it
Convertible(ann, ns) ==
    \/ ann.namespace = ns
    \/ ann.namespace = "beat_position" /\ ns = "beat"

convert(ann, ns) == [ann EXCEPT !.namespace = ns]

\* jam.search(namespace=query)
search(as, q) == SelectSeq(as, LAMBDA a : a.namespace = q[1])

\* BaseTaskTransformer.empty
empty(d) ==
    [namespace |-> "beat", time |-> Some(0), duration |-> Some(0),
     data |-> <<>>]

RECURSIVE ConvertedReversed(_, _)
ConvertedReversed(cands, ns) ==
    IF cands = <<>> THEN <<>>
    ELSE ConvertedReversed(Tail(cands), ns)
         \o (IF Convertible(Head(cands), ns)
             THEN <<convert(Head(cands), ns)>> ELSE <<>>)

\* the loop over results: the annotations that convert, in order
RECURSIVE Converted(_, _)
Converted(cands, ns) ==
    IF cands = <<>> THEN <<>>
    ELSE (IF Convertible(Head(cands), ns)
          THEN <<convert(Head(cands), ns)>> ELSE <<>>)
         \o Converted(Tail(cands), ns)

----------------------------------------------------------------------------
(* BeatTransformer.transform_annotation *)

Ones(n) == [m |-> 1, rows |-> [i \in 1..n |-> <<1>>]]

\* beat_events[idx]
RECURSIVE DownbeatEvents(_)
DownbeatEvents(obs) ==
    IF obs = <<>> THEN <<>>
    ELSE (IF Head(obs)[2] = 1 THEN <<Head(obs)[1]>> ELSE <<>>)
         \o DownbeatEvents(Tail(obs))

transform_annotation(ann, d) ==
    LET beat_events == [i \in 1..Len(ann.data) |-> ann.data[i][1]]
        downbeat_events == DownbeatEvents(ann.data)
        mask_downbeat == downbeat_events # <<>>
        target_beat ==
            encode_events(d, beat_events, Ones(Len(beat_events)), "bool")
        target_downbeat ==
            encode_events(d, downbeat_events, Ones(Len(downbeat_events)),
                          "bool")
    IN  IF target_beat.err # "none"
        THEN [err |-> target_beat.err, out |-> <<>>]
        ELSE IF target_downbeat.err # "none"
        THEN [err |-> target_downbeat.err, out |-> <<>>]
        ELSE [err |-> "none",
              out |-> [beat |-> target_beat.target,
                       downbeat |-> target_downbeat.target,
                       mask_downbeat |-> mask_downbeat]]

----------------------------------------------------------------------------
(* BaseTaskTransformer.transform *)

\* valid = [0, duration] or [ann.time, ann.time + ann.duration]
\* (the variant that tests truth instead of None: 0 counts as unset)
ValidSeconds_falsy(ann, d) ==
    IF ann.time \in {None, Some(0)} \/ ann.duration \in {None, Some(0)}
    THEN <<0, d>>
    ELSE <<ann.time[1], ann.time[1] + ann.duration[1]>>

ValidSeconds(ann, d) ==
    IF ann.time = None \/ ann.duration = None THEN <<0, d>>
    ELSE <<ann.time[1], ann.time[1] + ann.duration[1]>>

\* results[-1]['_valid'] = time_to_frames(valid, ...)
WithValid(out, ann, d) ==
    LET valid == ValidSeconds(ann, d)
    IN  [k \in DOMAIN out \cup {"_valid"} |->
            IF k = "_valid"
            THEN <<time_to_frames(valid[1]), time_to_frames(valid[2])>>
            ELSE out[k]]

\* for ann in anns: results.append(...)
RECURSIVE TransformLoop_last(_, _, _, _)
TransformLoop_last(as, d, i, acc) ==
    IF i > Len(as) THEN [err |-> "none", results |-> acc]
    ELSE LET r == transform_annotation(as[i], d)
         IN  IF r.err # "none" THEN [err |-> r.err, results |-> <<>>]
             ELSE TransformLoop_last(as, d, i + 1,
                                     <<WithValid(r.out, as[i], d)>>)

RECURSIVE TransformLoop(_, _, _, _)
TransformLoop(as, d, i, acc) ==
    IF i > Len(as) THEN [err |-> "none", results |-> acc]
    ELSE LET r == transform_annotation(as[i], d)
         IN  IF r.err # "none" THEN [err |-> r.err, results |-> <<>>]
             ELSE TransformLoop(as, d, i + 1,
                                Append(acc, WithValid(r.out, as[i], d)))

\* Scope.merge: field arrays add element-wise under the field's dtype,
\* flags likewise, _valid windows join to their union span
MergeArray(a, b, dt) ==
    [f \in 1..Len(a) |-> [j \in 1..Len(a[f]) |-> Add(a[f][j], b[f][j], dt)]]

MergeValue(k, a, b) ==
    IF k = "_valid" THEN <<Min(a[1], b[1]), Max(a[2], b[2])>>
    ELSE IF k = "mask_downbeat" THEN a \/ b
    ELSE MergeArray(a, b, fields[k].dtype)

RECURSIVE MergeFrom(_, _, _)
MergeFrom(rs, i, acc) ==
    IF i > Len(rs) THEN acc
    ELSE MergeFrom(rs, i + 1,
                   [k \in DOMAIN acc |-> MergeValue(k, acc[k], rs[i][k])])

merge(rs) ==
    LET merged == MergeFrom(rs, 2, rs[1])
    IN  [key \in {scope(k) : k \in DOMAIN merged} |->
            merged[CHOOSE k \in DOMAIN merged : scope(k) = key]]

\* the candidates: jam.search(**query) if query, else jam.annotations
Candidates(as, q) == IF q # None THEN search(as, q) ELSE as

\* the annotations transform goes on to encode
Survivors(as, q, d) ==
    LET found == Converted(Candidates(as, q), "beat")
    IN  IF found = <<>> THEN <<empty(d)>> ELSE found

transform(as, q, d) ==
    LET survivors == Survivors(as, q, d)
        loop == TransformLoop(survivors, d, 1, <<>>)
    IN  [err |-> loop.err,
         anns |-> survivors,
         results |-> loop.results,
         data |-> IF loop.err = "none" THEN merge(loop.results) ELSE <<>>]

----------------------------------------------------------------------------
(* The transform specification: Init draws the jam of a constructed
   BeatTransformer, Transform runs it *)

\* the (time, duration) pairs of the beat annotations drawn
Windows == {<<Some(0), None>>, <<Some(0), Some(0)>>, <<Some(1), Some(1)>>}

\* the annotations drawn, before their observations
Headers ==
    {[namespace |-> "beat", time |-> w[1], duration |-> w[2]] : w \in Windows}
    \cup {[namespace |-> "beat_position", time |-> None, duration |-> None],
          [namespace |-> "chord", time |-> Some(0), duration |-> None]}

\* an observation <<time, value>>: at the start, near the end or at the end
\* of the track; a value of 1 marks a downbeat
Observations == {0, MaxTime - 1, MaxTime} \X {1, 2}

\* the observations of obs that belong to annotation i
RECURSIVE Owned(_, _, _)
Owned(obs, own, i) ==
    IF obs = <<>> THEN <<>>
    ELSE (IF Head(own) = i THEN <<Head(obs)>> ELSE <<>>)
         \o Owned(Tail(obs), Tail(own), i)

\* jam.annotations: the headers h with the observations obs dealt out by own
Jam(h, obs, own) ==
    [i \in 1..Len(h) |->
        [namespace |-> h[i].namespace, time |-> h[i].time,
         duration |-> h[i].duration, data |-> Owned(obs, own, i)]]

\* observations are dealt in order, and none to a chord annotation
Dealt(h, obs, own) ==
    /\ \A x \in 1..Len(obs) : h[own[x]].namespace # "chord"
    /\ \A x \in 1..Len(obs) - 1 : own[x] <= own[x + 1]

TrInit ==
    /\ \E r \in Rates : sr = r[1] /\ hop_length = r[2]
    /\ cls = "BeatTransformer"
    /\ name = "beat"
    /\ fields = BeatFields
    /\ ctor = <<>>
    /\ popped = None
    /\ size = 0
    /\ duration = MaxTime
    /\ \E h \in SeqsUpTo(Headers, MaxAnns) :
          \E obs \in SeqsUpTo(Observations, MaxObs) :
             \E own \in [1..Len(obs) -> 1..Len(h)] :
                /\ Dealt(h, obs, own)
                /\ annotations = Jam(h, obs, own)
    /\ query \in {None, Some("beat")}
    /\ dtype = "bool"
    /\ intervals = <<>>
    /\ values = [m |-> 1, rows |-> <<>>]
    /\ call = "none"
    /\ err = "none"
    /\ target = <<>>
    /\ anns = <<>>
    /\ results = <<>>
    /\ data = <<>>

Transform ==
    /\ call = "none"
    /\ ctor = <<>>
    /\ err = "none"
    /\ cls = "BeatTransformer"
    /\ LET r == transform(annotations, query, duration)
       IN  /\ err' = r.err
           /\ anns' = r.anns
           /\ results' = r.results
           /\ data' = r.data
    /\ call' = "transform"
    /\ UNCHANGED <<sr, hop_length, duration, dtype, intervals, values,
                   target, cls, name, fields, ctor, popped, size,
                   annotations, query>>

TrNext == Transform

TrSpec == TrInit /\ [][TrNext]_vars

----------------------------------------------------------------------------
(* The constructors: the register and pop calls each class makes, the base
   class first *)

Reg(field, shape, dt) ==
    [op |-> "register", field |-> field, shape |-> shape, dtype |-> dt]

\* self.register(field, popped.shape, popped.dtype)
RegPopped(field) == [op |-> "register_popped", field |-> field]

Pop(field) == [op |-> "pop", field |-> field]

STFTInit(n_fft) ==
    <<Reg("mag", <<None, 1 + n_fft \div 2>>, "float32"),
      Reg("phase", <<None, 1 + n_fft \div 2>>, "float32")>>

CQTInit(n_octaves) ==
    <<Reg("mag", <<None, n_octaves * 12 * 3>>, "float32"),
      Reg("phase", <<None, n_octaves * 12 * 3>>, "float32")>>

TempogramInit(win_length) ==
    <<Reg("tempogram", <<None, win_length>>, "float32")>>

Constructor(c, n) ==
    CASE c = "STFT" -> STFTInit(n)
      [] c = "STFTPhaseDiff" -> STFTInit(n) \o <<Pop("phase"), RegPopped("dphase")>>
      [] c = "STFTMag" -> STFTInit(n) \o <<Pop("phase")>>
      [] c = "CQT" -> CQTInit(n)
      [] c = "CQTMag" -> CQTInit(n) \o <<Pop("phase")>>
      [] c = "CQTPhaseDiff" -> CQTInit(n) \o <<Pop("phase"), RegPopped("dphase")>>
      [] c = "Mel" -> <<Reg("mag", <<None, n>>, "float32")>>
      [] c = "Tempogram" -> TempogramInit(n)
      [] c = "TempoScale" ->
            TempogramInit(n)
            \o <<Pop("tempogram"),
                 Reg("temposcale", <<None, 1 + n \div 2>>, "float32")>>
      [] c = "BeatTransformer" ->
            <<Reg("beat", <<None>>, "bool"),
              Reg("downbeat", <<None>>, "bool"),
              Reg("mask_downbeat", <<1>>, "bool")>>

FeatureClasses ==
    {"STFT", "STFTPhaseDiff", "STFTMag", "CQT", "CQTMag", "CQTPhaseDiff",
     "Mel", "Tempogram", "TempoScale"}

Classes == FeatureClasses \cup {"BeatTransformer"}

\* the keys of the dict transform_audio returns
STFTKeys == {"mag", "phase"}

CQTKeys == {"mag", "phase"}

TempogramKeys == {"tempogram"}

transform_audio_keep(c) ==
    CASE c \in {"STFT", "STFTMag", "STFTPhaseDiff"} -> STFTKeys
      [] c \in {"CQT", "CQTMag", "CQTPhaseDiff"} -> CQTKeys
      [] c = "Mel" -> {"mag"}
      [] c \in {"Tempogram", "TempoScale"} -> TempogramKeys

transform_audio(c) ==
    CASE c = "STFT" -> STFTKeys
      [] c = "STFTPhaseDiff" -> (STFTKeys \ {"phase"}) \cup {"dphase"}
      [] c = "STFTMag" -> STFTKeys \ {"phase"}
      [] c = "CQT" -> CQTKeys
      [] c = "CQTMag" -> CQTKeys \ {"phase"}
      [] c = "CQTPhaseDiff" -> (CQTKeys \ {"phase"}) \cup {"dphase"}
      [] c = "Mel" -> {"mag"}
      [] c = "Tempogram" -> TempogramKeys
      [] c = "TempoScale" -> (TempogramKeys \ {"tempogram"}) \cup {"temposcale"}

\* FeatureExtractor.transform: the arrays of transform_audio under scoped
\* keys; an array is stood for by the field it fills
feature_transform(c) ==
    [key \in {scope(k) : k \in transform_audio(c)} |->
        CHOOSE k \in transform_audio(c) : scope(k) = key]

----------------------------------------------------------------------------
(* The schema specification: a producer is constructed call by call, then
   asked to transform *)

Sizes == {2, 4}

Names == {"beat", "p"}

OneBeat ==
    [namespace |-> "beat", time |-> Some(0), duration |-> None,
     data |-> <<<<0, 1>>>>]

ScInit ==
    /\ \E r \in Rates : sr = r[1] /\ hop_length = r[2]
    /\ cls \in Classes
    /\ name \in Names
    /\ size \in Sizes
    /\ fields = NoFields
    /\ ctor = Constructor(cls, size)
    /\ popped = None
    /\ duration = MaxTime
    /\ annotations \in IF cls = "BeatTransformer"
                       THEN {<<>>, <<OneBeat>>} ELSE {<<>>}
    /\ query = None
    /\ dtype = "bool"
    /\ intervals = <<>>
    /\ values = [m |-> 1, rows |-> <<>>]
    /\ call = "none"
    /\ err = "none"
    /\ target = <<>>
    /\ anns = <<>>
    /\ results = <<>>
    /\ data = <<>>

Register ==
    /\ ctor # <<>>
    /\ Head(ctor).op \in {"register", "register_popped"}
    /\ err = "none"
    /\ IF Head(ctor).field \in DOMAIN fields
       THEN err' = "DuplicateFieldError" /\ fields' = fields
       ELSE /\ err' = err
            /\ fields' =
                 IF Head(ctor).op = "register"
                 THEN register(fields, Head(ctor).field, Head(ctor).shape,
                               Head(ctor).dtype)
                 ELSE register(fields, Head(ctor).field, popped[1].shape,
                               popped[1].dtype)
    /\ ctor' = Tail(ctor)
    /\ UNCHANGED <<sr, hop_length, duration, dtype, intervals, values, call,
                   target, cls, name, popped, size, annotations, query, anns,
                   results, data>>

PopField ==
    /\ ctor # <<>>
    /\ Head(ctor).op = "pop"
    /\ err = "none"
    /\ IF Head(ctor).field \notin DOMAIN fields
       THEN err' = "UnknownFieldError" /\ UNCHANGED <<fields, popped>>
       ELSE /\ err' = err
            /\ popped' = Some(fields[Head(ctor).field])
            /\ fields' = pop(fields, Head(ctor).field)
    /\ ctor' = Tail(ctor)
    /\ UNCHANGED <<sr, hop_length, duration, dtype, intervals, values, call,
                   target, cls, name, size, annotations, query, anns,
                   results, data>>

FeatureTransform ==
    /\ call = "none"
    /\ ctor = <<>>
    /\ err = "none"
    /\ cls \in FeatureClasses
    /\ data' = feature_transform(cls)
    /\ call' = "transform"
    /\ UNCHANGED <<sr, hop_length, duration, dtype, intervals, values, err,
                   target, cls, name, fields, ctor, popped, size,
                   annotations, query, anns, results>>

ScNext == Register \/ PopField \/ FeatureTransform \/ Transform

ScSpec == ScInit /\ [][ScNext]_vars

----------------------------------------------------------------------------
(* The encoder specification: Init draws the arguments, the actions call *)

IntervalSet == {iv \in Times \X Times : iv[1] <= iv[2]}

\* the value rows drawn, one and two columns wide
ValueRows == {<<1>>, <<2>>, <<1, 2>>, <<2, 1>>}

ValueArrays ==
    UNION {{[m |-> m, rows |-> r] :
               r \in SeqsUpTo({v \in ValueRows : Len(v) = m}, MaxLen)} :
           m \in {1, 2}}

\* the encoders are methods of a constructed BeatTransformer
EncInit ==
    /\ \E r \in Rates : sr = r[1] /\ hop_length = r[2]
    /\ cls = "BeatTransformer"
    /\ name = "beat"
    /\ fields = BeatFields
    /\ ctor = <<>>
    /\ popped = None
    /\ size = 0
    /\ annotations = <<>>
    /\ query = None
    /\ anns = <<>>
    /\ results = <<>>
    /\ data = <<>>
    /\ duration \in {MaxTime - 1, MaxTime}
    /\ dtype \in DTypes
    /\ intervals \in SeqsUpTo(IntervalSet, MaxLen)
    /\ values \in ValueArrays
    /\ call = "none"
    /\ err = "none"
    /\ target = <<>>

\* the events of an interval list are its onsets (intervals[:, 0])
Onsets(ivs) == [i \in 1..Len(ivs) |-> ivs[i][1]]

EncodeEvents ==
    /\ call = "none"
    /\ LET r == encode_events(duration, Onsets(intervals), values, dtype)
       IN  /\ err' = r.err
           /\ target' = r.target
    /\ call' = "encode_events"
    /\ UNCHANGED <<sr, hop_length, duration, dtype, intervals, values, cls,
                   name, fields, ctor, popped, size, annotations, query,
                   anns, results, data>>

EncodeIntervals ==
    /\ call = "none"
    /\ LET r == encode_intervals(duration, intervals, values, dtype)
       IN  /\ err' = r.err
           /\ target' = r.target
    /\ call' = "encode_intervals"
    /\ UNCHANGED <<sr, hop_length, duration, dtype, intervals, values, cls,
                   name, fields, ctor, popped, size, annotations, query,
                   anns, results, data>>

EncNext == EncodeEvents \/ EncodeIntervals

EncSpec == EncInit /\ [][EncNext]_vars

----------------------------------------------------------------------------
(* What a frame receives, stated frame by frame *)

\* the pairs zip(values, frames) visits
Zipped == 1..Min(Len(values.rows), Len(intervals))

EventFrame(i) == time_to_frames(intervals[i][1])

StartFrame(i) == time_to_frames(intervals[i][1])

EndFrame(i) == time_to_frames(intervals[i][2])

\* the pairs that contribute to frame f in the call that ran
Hits(f) ==
    IF call = "encode_events"
    THEN {i \in Zipped : EventFrame(i) = f}
    ELSE {i \in Zipped : StartFrame(i) <= f /\ f < EndFrame(i)}

\* the arithmetic sum of column j over the rows in hits, cast to the dtype
RECURSIVE ColumnSum(_, _)
ColumnSum(hits, j) ==
    IF hits = {} THEN 0
    ELSE LET i == CHOOSE x \in hits : TRUE
         IN  astype(values.rows[i][j], dtype).v + ColumnSum(hits \ {i}, j)

\* the row of frame f when the pairs in hits are accumulated onto the fill
RECURSIVE Accumulated(_, _, _)
Accumulated(row, hits, i) ==
    IF i > Len(values.rows) THEN row
    ELSE Accumulated(IF i \in hits THEN AddRow(row, values.rows[i], dtype)
                     ELSE row, hits, i + 1)

FillRow == [j \in 1..values.m |-> fill_value(dtype)]

Returned == call # "none" /\ err = "none"

Frames == 0..(time_to_frames(duration) - 1)

\* some visited event, or interval boundary, lies at or beyond n_frames
OutOfRange ==
    IF call = "encode_events"
    THEN \E i \in Zipped : EventFrame(i) >= time_to_frames(duration)
    ELSE \E i \in Zipped : EndFrame(i) >= time_to_frames(duration)

----------------------------------------------------------------------------
(* C3: an event time or interval boundary at or beyond n_frames raises no
   error and is not written; the array still has n_frames rows and holds
   every in-range contribution. *)
C3_OutOfRangeDropped ==
    (call # "none" /\ OutOfRange) =>
        /\ err = "none"
        /\ Len(target) = time_to_frames(duration)
        /\ \A f \in Frames : target[f + 1] = Accumulated(FillRow, Hits(f), 1)

(* C4: a values array whose row count differs from the number of events or
   intervals makes the call fail; it never returns an array. *)
C4_RowMismatchFails ==
    (call # "none" /\ Len(values.rows) # Len(intervals)) => err # "none"

(* C5: encode_intervals is additive: a frame covered by some intervals holds
   the sum of their value rows (two intervals of value 1 give 2), a frame
   covered by none holds the fill value. *)
C5_IntervalsAdditive ==
    (call = "encode_intervals" /\ Len(values.rows) = Len(intervals)) =>
        /\ err = "none"
        /\ \A f \in Frames : \A j \in 1..values.m :
              target[f + 1][j] = IF Hits(f) = {} THEN fill_value(dtype)
                                 ELSE Num(ColumnSum(Hits(f), j))

(* C7: in a returned array every frame without a contribution holds NaN for
   a floating or complex dtype and zero for any other; an empty input with
   values of shape (0, m) gives n_frames rows of m fill values. *)
C7_UnobservedIsFill ==
    Returned =>
        /\ \A f \in Frames : Hits(f) = {} =>
              /\ Len(target[f + 1]) = values.m
              /\ \A j \in 1..values.m :
                    target[f + 1][j] = IF dtype \in {"float", "complex"}
                                       THEN NaN ELSE Num(0)
        /\ (intervals = <<>> /\ values.rows = <<>>) =>
              Len(target) = time_to_frames(duration)

C7_Witness ==
    /\ Returned
    /\ dtype = "float"
    /\ \E f \in Frames : Hits(f) = {} /\ target[f + 1][1] = NaN
    /\ \E f \in Frames : Hits(f) # {}

\* the frames of a validity window that spans the whole track
FullTrackValid == <<time_to_frames(0), time_to_frames(duration)>>

(* C10: whatever the events, intervals, values and dtype, a returned array
   has exactly frame(duration) rows of m cells, and that count is the end
   frame of a full-track _valid window. *)
C10_SameFrameCount ==
    Returned =>
        /\ Len(target) = FullTrackValid[2]
        /\ \A f \in Frames : Len(target[f + 1]) = values.m

C10_Witness ==
    /\ Returned
    /\ call = "encode_intervals"
    /\ Len(target) = 1
    /\ Len(intervals) = 2
    /\ (duration * sr) % (TicksPerSecond * hop_length) # 0

----------------------------------------------------------------------------
(* What transform was given and what it returned *)

TransformReturned == call = "transform" /\ cls = "BeatTransformer" /\ err = "none"

\* the candidates that convert to the beat namespace, by position
ConvertibleAt ==
    {i \in 1..Len(Candidates(annotations, query)) :
        Convertible(Candidates(annotations, query)[i], "beat")}

\* the p-th smallest member of a set of positions
Nth(S, p) == CHOOSE i \in S : Cardinality({j \in S : j <= i}) = p

\* the frames of the validity window of one annotation
WindowFrames(ann) ==
    IF ann.time = None \/ ann.duration = None
    THEN <<time_to_frames(0), time_to_frames(duration)>>
    ELSE <<time_to_frames(ann.time[1]),
           time_to_frames(ann.time[1] + ann.duration[1])>>

\* annotation i has an onset (of value 1 for the downbeat field) on frame f
Onset(k, i, f) ==
    \E o \in 1..Len(anns[i].data) :
        /\ time_to_frames(anns[i].data[o][1]) = f
        /\ k = "downbeat" => anns[i].data[o][2] = 1

(* C1: when no candidate converts, transform raises nothing and returns the
   record of one empty annotation: each label field has frame(duration)
   fill-valued rows and _valid is [0, frame(duration)]. *)
C1_EmptyFallbackFullTrack ==
    (call = "transform" /\ cls = "BeatTransformer" /\ ConvertibleAt = {}) =>
        /\ err = "none"
        /\ Len(anns) = 1
        /\ anns[1].data = <<>>
        /\ \A k \in {"beat", "downbeat"} :
              /\ Len(data[scope(k)]) = time_to_frames(duration)
              /\ \A f \in Frames : data[scope(k)][f + 1] = <<Num(0)>>
        /\ data[scope("_valid")] = <<0, time_to_frames(duration)>>

(* C2: the keys transform returns are exactly the registered field names
   under the producer's prefix, plus _valid for an annotation producer; a
   popped field is never a key, and BeatTransformer returns beat, downbeat,
   mask_downbeat and _valid. *)
C2_KeysAreRegisteredFields ==
    (call = "transform" /\ err = "none") =>
        /\ DOMAIN data =
              {scope(k) : k \in DOMAIN fields}
              \cup (IF cls = "BeatTransformer" THEN {scope("_valid")} ELSE {})
        /\ cls \in {"STFTMag", "CQTMag", "STFTPhaseDiff", "CQTPhaseDiff"} =>
              scope("phase") \notin DOMAIN data
        /\ cls \in {"STFTPhaseDiff", "CQTPhaseDiff"} =>
              scope("dphase") \in DOMAIN data
        /\ cls = "TempoScale" =>
              /\ scope("tempogram") \notin DOMAIN data
              /\ scope("temposcale") \in DOMAIN data
        /\ cls = "BeatTransformer" =>
              DOMAIN data = {scope("beat"), scope("downbeat"),
                             scope("mask_downbeat"), scope("_valid")}

C2_Witness ==
    /\ call = "transform"
    /\ err = "none"
    /\ cls = "STFTPhaseDiff"
    /\ popped # None
    /\ DOMAIN data = {scope("mag"), scope("dphase")}

(* C6: when two or more annotations survive, each field of the merged record
   is one array of frame(duration) rows holding the element-wise sum, in the
   field's boolean dtype, of the per-annotation arrays, and _valid is the
   union span of the per-annotation windows. *)
C6_MergeSumsAndSpans ==
    (TransformReturned /\ Len(anns) >= 2) =>
        /\ \A k \in {"beat", "downbeat"} :
              /\ Len(data[scope(k)]) = time_to_frames(duration)
              /\ \A f \in Frames :
                    data[scope(k)][f + 1] =
                       <<Num(IF \E i \in 1..Len(anns) : Onset(k, i, f)
                             THEN 1 ELSE 0)>>
        /\ \A i \in 1..Len(anns) :
              /\ data[scope("_valid")][1] <= WindowFrames(anns[i])[1]
              /\ data[scope("_valid")][2] >= WindowFrames(anns[i])[2]
        /\ \E i \in 1..Len(anns) :
              data[scope("_valid")][1] = WindowFrames(anns[i])[1]
        /\ \E i \in 1..Len(anns) :
              data[scope("_valid")][2] = WindowFrames(anns[i])[2]

C6_Witness ==
    /\ TransformReturned
    /\ Len(anns) = 2
    /\ anns[1].data # <<>>
    /\ anns[2].data = <<>>
    /\ \E f \in Frames : data[scope("beat")][f + 1] = <<Num(1)>>
    /\ WindowFrames(anns[1]) # WindowFrames(anns[2])
    /\ data[scope("_valid")] \notin {WindowFrames(anns[1]), WindowFrames(anns[2])}

(* C8: no NamespaceError reaches the caller; the annotations transformed are
   exactly the candidates that convert, in their order, and the synthesized
   empty annotation stands in exactly when none converts. *)
C8_FailuresAbsorbed ==
    (call = "transform" /\ cls = "BeatTransformer") =>
        /\ err # "NamespaceError"
        /\ ConvertibleAt = {} =>
              /\ Len(anns) = 1
              /\ anns[1].namespace = "beat"
              /\ anns[1].data = <<>>
        /\ ConvertibleAt # {} =>
              /\ Len(anns) = Cardinality(ConvertibleAt)
              /\ \A p \in 1..Len(anns) :
                    LET c == Candidates(annotations, query)[Nth(ConvertibleAt, p)]
                    IN  /\ anns[p].namespace = "beat"
                        /\ anns[p].time = c.time
                        /\ anns[p].duration = c.duration
                        /\ anns[p].data = c.data
        /\ err = "none" => Len(results) = Len(anns)

C8_Witness ==
    /\ TransformReturned
    /\ Len(annotations) = 2
    /\ ~Convertible(annotations[1], "beat")
    /\ annotations[2].namespace = "beat_position"
    /\ anns[1].namespace = "beat"
    /\ Len(anns) = 1
    /\ anns[1].data # <<>>

(* C9 as stated: _valid is the frames of [0, track_duration] when time and
   duration are both unset, and the frames of [time, time + duration] in
   every other case. *)
C9_ValidWhenBothUnset ==
    TransformReturned =>
        \A i \in 1..Len(anns) :
            IF anns[i].time = None /\ anns[i].duration = None
            THEN results[i]["_valid"] =
                    <<time_to_frames(0), time_to_frames(duration)>>
            ELSE /\ anns[i].time # None
                 /\ anns[i].duration # None
                 /\ results[i]["_valid"] =
                       <<time_to_frames(anns[i].time[1]),
                         time_to_frames(anns[i].time[1] + anns[i].duration[1])>>

(* C9 amended: _valid is the frames of [0, track_duration] when time or
   duration is unset, and the frames of [time, time + duration] when both
   are set, a time of 0 and a duration of 0 included. *)
C9_ValidWhenEitherUnset ==
    TransformReturned =>
        \A i \in 1..Len(anns) :
            IF anns[i].time = None \/ anns[i].duration = None
            THEN results[i]["_valid"] =
                    <<time_to_frames(0), time_to_frames(duration)>>
            ELSE results[i]["_valid"] =
                    <<time_to_frames(anns[i].time[1]),
                      time_to_frames(anns[i].time[1] + anns[i].duration[1])>>

C9_Witness ==
    /\ TransformReturned
    /\ Len(anns) = 2
    /\ anns[1].time = Some(0) /\ anns[1].duration = None
    /\ anns[2].time = Some(0) /\ anns[2].duration = Some(0)
    /\ results[1]["_valid"][2] > 0
    /\ results[2]["_valid"] = <<0, 0>>

----------------------------------------------------------------------------
(* C11: for any beat annotation, transform_annotation gives a beat field
   that is 1 exactly on the frames of the onsets and 0 elsewhere, a downbeat
   field that is 1 exactly on the frames of the onsets of value 1, and a
   mask_downbeat that is true exactly when some observation has value 1. *)
C11_BeatIndicators ==
    (call = "transform" /\ cls = "BeatTransformer") =>
        /\ err = "none"
        /\ Len(results) = Len(anns)
        /\ \A i \in 1..Len(anns) :
              /\ \A k \in {"beat", "downbeat"} :
                    /\ Len(results[i][k]) = time_to_frames(duration)
                    /\ \A f \in Frames :
                          results[i][k][f + 1] =
                             <<Num(IF Onset(k, i, f) THEN 1 ELSE 0)>>
              /\ results[i]["mask_downbeat"] =
                    (\E o \in 1..Len(anns[i].data) : anns[i].data[o][2] = 1)

\* a row of zeros, the neutral start of a sum
ZeroRow == [j \in 1..values.m |-> Num(0)]

(* C12: for every dtype, a frame of a returned array that receives an event
   or is covered by an interval holds the sum of the contributing value rows;
   the fill value takes no part in it. *)
C12_ObservedHoldsSum ==
    Returned =>
        \A f \in Frames :
            Hits(f) # {} => target[f + 1] = Accumulated(ZeroRow, Hits(f), 1)

====
